---- MODULE Spec2Model ----
(***************************************************************************)
(* The shipping-box Record Store (context/BoxContext.js) with the pure     *)
(* helpers it calls (utils/index.js, constants/index.js).                  *)
(*                                                                         *)
(* Numbers are fixed-point: a weight is an integer number of hundredths of *)
(* a kilogram, a rate and a cost an integer number of hundredths of the    *)
(* currency unit.  A JavaScript object is a function from the names of the *)
(* fields it has to their values.  An optional value (undefined or null    *)
(* against a value v) is the set {} against the set {v}.  A timestamp is   *)
(* the reading of a clock that counts ticks.                               *)
(***************************************************************************)
EXTENDS Integers, Sequences, FiniteSets, TLC

VARIABLES
    state,      \* the reducer's state: boxes, loading, error, statistics
    pending,    \* addBox calls waiting in their delay, oldest first
    nextId,     \* the number of ids generateId has handed out
    now,        \* the clock: a tick passes after each call that reads it
    captured,   \* state.boxes as the updateBox callback in use captured it
    nUpdates,   \* the number of updateBox calls made
    last,       \* the last call of the action API: arguments, result, state before
    ui          \* the view: the route, the AddBox form and its notification

vars == <<state, pending, nextId, now, captured, nUpdates, last, ui>>

(* ------------------------------ bounds -------------------------------- *)

MaxAdds == 2        \* ids handed out by generateId
MaxUpdates == 1     \* updateBox calls
MaxPriceWeight == 200   \* weights priced, in hundredths of a kg
MaxCalls == 3       \* calls of a debounced function
MaxBurst == 2       \* updateBox calls of the handlers of a view

(* ----------------------------- constants ------------------------------ *)

Null == "null"

SHIPPING_RATES ==
    [SWEDEN |-> 735, CHINA |-> 1153, BRAZIL |-> 1563, AUSTRALIA |-> 5009]

GENERIC_ERROR == "An unexpected error occurred"
BOX_ADDED == "Box added successfully!"

MAX_WEIGHT == 1000000
MAX_NAME_LENGTH == 100

DEFAULT_BOX_COLOR == "#3498db"

\* The Notification component's default duration, in milliseconds.
DURATION == 5000

(* --------------------------- optional values -------------------------- *)

Undefined == {}
Some(v) == {v}
Val(m) == CHOOSE v \in m : TRUE

\* o.k for an object o: undefined when o has no field k.
Get(o, k) == IF k \in DOMAIN o THEN Some(o[k]) ELSE Undefined

\* { ...a, ...b }
Spread(a, b) ==
    [k \in DOMAIN a \cup DOMAIN b |-> IF k \in DOMAIN b THEN b[k] ELSE a[k]]

(* ------------------------------ utils --------------------------------- *)

\* String.prototype.toUpperCase on the country strings of the model.
ToUpperCase(s) ==
    CASE s \in {"Sweden", "sweden", "SWEDEN"} -> "SWEDEN"
      [] s \in {"China", "china", "CHINA"} -> "CHINA"
      [] s \in {"Brazil", "brazil", "BRAZIL"} -> "BRAZIL"
      [] s \in {"Australia", "australia", "AUSTRALIA"} -> "AUSTRALIA"
      [] s = "Mars" -> "MARS"
      [] OTHER -> s

\* weight * rate is a binary64 product.  Where the exact product of a weight of
\* up to 10 kg and a rate is on a half cent, the binary64 one is just below it
\* for the weights listed here, in hundredths of a kg, and just above it for
\* the others.
BelowHalfCent(w, rate) ==
    CASE rate = 735 ->
           w \in {10, 30, 50, 70, 130, 150, 170, 190, 230, 270, 290, 330, 350,
                  390, 410, 430, 450, 510, 530, 550, 570, 610, 630, 650, 670,
                  710, 730, 770, 790, 810, 850, 870, 910, 970}
      [] rate = 1153 ->
           w \in {50, 150, 250, 350, 450, 550, 650, 750, 850, 950}
      [] rate = 1563 -> w = 650
      [] rate = 5009 -> w = 350
      [] OTHER -> FALSE

\* (weight * rate).toFixed(2) rounding the exact product half up, which the
\* binary64 product never is.
Round2HalfUp(w, rate) == (w * rate + 50) \div 100

\* parseFloat((weight * rate).toFixed(2)), on hundredths: toFixed rounds the
\* binary64 product to the nearest cent.
Round2(w, rate) ==
    IF (w * rate) % 100 = 50 /\ BelowHalfCent(w, rate)
    THEN (w * rate) \div 100
    ELSE (w * rate + 50) \div 100

Returned(v) == [threw |-> FALSE, value |-> v]
Thrown(m) == [threw |-> TRUE, message |-> m]

\* calculateShippingCost without its test of the country: an empty or absent
\* country has no rate.
calculateShippingCostChecksWeightOnly(weight, country) ==
    IF weight = Undefined \/ weight = Some(0) \/ Val(weight) <= 0
    THEN Returned(0)
    ELSE IF country = Undefined
    THEN Thrown("Cannot read properties of undefined (reading 'toUpperCase')")
    ELSE LET countryKey == ToUpperCase(Val(country))
         IN  IF countryKey \notin DOMAIN SHIPPING_RATES
             THEN Thrown("Shipping rate not found for country: " \o Val(country))
             ELSE Returned(Round2(Val(weight), SHIPPING_RATES[countryKey]))

calculateShippingCost(weight, country) ==
    IF weight = Undefined \/ weight = Some(0)
       \/ country = Undefined \/ country = Some("")
       \/ Val(weight) <= 0
    THEN Returned(0)
    ELSE LET countryKey == ToUpperCase(Val(country))
         IN  IF countryKey \notin DOMAIN SHIPPING_RATES
             THEN Thrown("Shipping rate not found for country: " \o Val(country))
             ELSE Returned(Round2(Val(weight), SHIPPING_RATES[countryKey]))

\* generateId: a string built from the time and a random suffix; here the
\* number of the call, n ids having been handed out before it.
generateIdRepeats(n) == 1
generateId(n) == n + 1

(* ------------------------------ reducer ------------------------------- *)

createInitialState ==
    [boxes |-> <<>>, loading |-> FALSE, error |-> Null,
     statistics |-> [totalBoxes |-> 0, totalWeight |-> 0, totalCost |-> 0]]

\* box.weight || 0, box.shippingCost || 0
OrZero(m) == IF m = Undefined THEN 0 ELSE Val(m)

RECURSIVE StatsFold(_, _)
StatsFold(boxes, stats) ==
    IF boxes = <<>> THEN stats
    ELSE StatsFold(Tail(boxes),
            [totalBoxes |-> stats.totalBoxes + 1,
             totalWeight |-> stats.totalWeight + OrZero(Get(Head(boxes), "weight")),
             totalCost |-> stats.totalCost + OrZero(Get(Head(boxes), "shippingCost"))])

calculateStatistics(boxes) ==
    IF Len(boxes) = 0
    THEN [totalBoxes |-> 0, totalWeight |-> 0, totalCost |-> 0]
    ELSE StatsFold(boxes, [totalBoxes |-> 0, totalWeight |-> 0, totalCost |-> 0])

\* boxes.splice(boxes.findIndex(box => box.id === id), 1): the first match
\* goes, and with no match (index -1) the last box goes.
RECURSIVE FilterOutSplice(_, _)
FilterOutSplice(boxes, id) ==
    IF boxes = <<>> THEN <<>>
    ELSE IF \A k \in 1..Len(boxes) : Get(boxes[k], "id") # id
         THEN SubSeq(boxes, 1, Len(boxes) - 1)
         ELSE IF Get(Head(boxes), "id") = id THEN Tail(boxes)
              ELSE <<Head(boxes)>> \o FilterOutSplice(Tail(boxes), id)

\* boxes.filter(box => box.id !== id)
RECURSIVE FilterOut(_, _)
FilterOut(boxes, id) ==
    IF boxes = <<>> THEN <<>>
    ELSE IF Get(Head(boxes), "id") # id
         THEN <<Head(boxes)>> \o FilterOut(Tail(boxes), id)
         ELSE FilterOut(Tail(boxes), id)

\* An update that adds the record when no box has the id (an upsert).
MapUpdateUpsert(boxes, id, updates) ==
    IF \A k \in 1..Len(boxes) : Get(boxes[k], "id") # id
    THEN Append(boxes, Spread([id |-> Val(id)], updates))
    ELSE [i \in 1..Len(boxes) |->
            IF Get(boxes[i], "id") = id THEN Spread(boxes[i], updates) ELSE boxes[i]]

\* boxes.map(box => box.id === id ? { ...box, ...updates } : box)
MapUpdate(boxes, id, updates) ==
    [i \in 1..Len(boxes) |->
        IF Get(boxes[i], "id") = id THEN Spread(boxes[i], updates) ELSE boxes[i]]

\* A catch that starts over from the initial state.
ReducerCatchResets(s) == [createInitialState EXCEPT !.error = GENERIC_ERROR]

ReducerCatch(s) == [s EXCEPT !.error = GENERIC_ERROR, !.loading = FALSE]

\* The try block throws: ADD_BOX without a payload appends undefined, whose
\* weight calculateStatistics reads; UPDATE_BOX without a payload reads
\* action.payload.id as soon as there is a box to map.
Throws(s, action) ==
    CASE action.type = "ADD_BOX" -> "payload" \notin DOMAIN action
      [] action.type = "UPDATE_BOX" ->
            "payload" \notin DOMAIN action /\ Len(s.boxes) > 0
      [] OTHER -> FALSE

LoadBoxes(s, action) ==
    LET boxes == IF "payload" \in DOMAIN action THEN action.payload ELSE <<>>
    IN  [s EXCEPT !.boxes = boxes, !.statistics = calculateStatistics(boxes),
                  !.loading = FALSE, !.error = Null]

\* ADD_BOX putting the new box first: [action.payload, ...state.boxes].
AddBoxCaseUnshift(s, action) ==
    LET newBoxes == <<action.payload>> \o s.boxes
    IN  [s EXCEPT !.boxes = newBoxes,
                  !.statistics = calculateStatistics(newBoxes),
                  !.error = Null, !.loading = FALSE]

\* ADD_BOX leaving loading as it is.
AddBoxCaseKeepsLoading(s, action) ==
    LET newBoxes == Append(s.boxes, action.payload)
    IN  [s EXCEPT !.boxes = newBoxes,
                  !.statistics = calculateStatistics(newBoxes),
                  !.error = Null]

AddBoxCase(s, action) ==
    IF Throws(s, action) THEN ReducerCatch(s)
    ELSE LET newBoxes == Append(s.boxes, action.payload)
         IN  [s EXCEPT !.boxes = newBoxes,
                       !.statistics = calculateStatistics(newBoxes),
                       !.error = Null, !.loading = FALSE]

\* REMOVE_BOX leaving the statistics as they were.
RemoveBoxCaseKeepsStatistics(s, action) ==
    [s EXCEPT !.boxes = FilterOut(s.boxes, Get(action, "payload")),
              !.error = Null]

\* REMOVE_BOX resetting loading, as ADD_BOX does.
RemoveBoxCaseClearsLoading(s, action) ==
    LET newBoxes == FilterOut(s.boxes, Get(action, "payload"))
    IN  [s EXCEPT !.boxes = newBoxes,
                  !.statistics = calculateStatistics(newBoxes),
                  !.error = Null, !.loading = FALSE]

RemoveBoxCase(s, action) ==
    LET newBoxes == FilterOut(s.boxes, Get(action, "payload"))
    IN  [s EXCEPT !.boxes = newBoxes,
                  !.statistics = calculateStatistics(newBoxes),
                  !.error = Null]

\* UPDATE_BOX leaving the error as it was.
UpdateBoxCaseKeepsError(s, action) ==
    IF Throws(s, action) THEN ReducerCatch(s)
    ELSE IF "payload" \notin DOMAIN action
    THEN [s EXCEPT !.statistics = calculateStatistics(s.boxes)]
    ELSE LET newBoxes ==
                 MapUpdate(s.boxes, Some(action.payload.id), action.payload.updates)
         IN  [s EXCEPT !.boxes = newBoxes,
                       !.statistics = calculateStatistics(newBoxes)]

UpdateBoxCase(s, action) ==
    IF Throws(s, action) THEN ReducerCatch(s)
    ELSE IF "payload" \notin DOMAIN action
    THEN [s EXCEPT !.statistics = calculateStatistics(s.boxes), !.error = Null]
    ELSE LET newBoxes ==
                 MapUpdate(s.boxes, Some(action.payload.id), action.payload.updates)
         IN  [s EXCEPT !.boxes = newBoxes,
                       !.statistics = calculateStatistics(newBoxes),
                       !.error = Null]

boxReducer(s, action) ==
    CASE action.type = "LOAD_BOXES" -> LoadBoxes(s, action)
      [] action.type = "ADD_BOX" -> AddBoxCase(s, action)
      [] action.type = "REMOVE_BOX" -> RemoveBoxCase(s, action)
      [] action.type = "UPDATE_BOX" -> UpdateBoxCase(s, action)
      [] action.type = "SET_LOADING" -> [s EXCEPT !.loading = action.payload]
      [] action.type = "SET_ERROR" ->
            [s EXCEPT !.error = action.payload, !.loading = FALSE]
      [] action.type = "CLEAR_ERROR" -> [s EXCEPT !.error = Null]
      [] action.type = "UPDATE_STATISTICS" ->
            [s EXCEPT !.statistics = calculateStatistics(s.boxes)]
      [] OTHER -> s

(* ---------------------------- validation ------------------------------ *)

\* String.prototype.trim on the receiver names of the model.
Trim(s) == IF s = "  " THEN "" ELSE s

\* parseFloat on the texts of the weight input, in hundredths: the number that
\* the longest numeral at the start of the text (blanks skipped) denotes, and
\* no number (NaN) for a text that starts with no numeral, the empty one
\* included.
ParseFloat(text) ==
    CASE text \in {"2", "2kg"} -> Some(200)
      [] text = "0" -> Some(0)
      [] text = "-1" -> Some(-100)
      [] text = "10000" -> Some(1000000)
      [] text = "10000.01" -> Some(1000001)
      [] OTHER -> Undefined

\* validateBoxForm without the rule for the country.
validateBoxFormSkipsCountry(formData) ==
    LET name == Get(formData, "receiverName")
        weight == Get(formData, "weight")
        nameErr ==
            IF name = Undefined \/ Trim(Val(name)) = ""
            THEN [receiverName |->
                    "Receiver name is required. Please enter the recipient's name."]
            ELSE <<>>
        weightErr ==
            IF weight = Undefined \/ weight = Some(0)
            THEN [weight |->
                    "Weight is required. Please enter the package weight in kilograms."]
            ELSE <<>>
        errors == Spread(nameErr, weightErr)
    IN  [isValid |-> DOMAIN errors = {}, errors |-> errors]

\* The error map of validateBoxForm: a field has a key iff its rule fails.
validateBoxForm(formData) ==
    LET name == Get(formData, "receiverName")
        weight == Get(formData, "weight")
        country == Get(formData, "country")
        nameErr ==
            IF name = Undefined \/ Trim(Val(name)) = ""
            THEN [receiverName |->
                    "Receiver name is required. Please enter the recipient's name."]
            ELSE IF Len(Trim(Val(name))) > MAX_NAME_LENGTH
                 THEN [receiverName |-> "Receiver name cannot exceed 100 characters."]
                 ELSE <<>>
        weightErr ==
            IF weight = Undefined \/ weight = Some(0)
            THEN [weight |->
                    "Weight is required. Please enter the package weight in kilograms."]
            ELSE IF Val(weight) < 0
                 THEN [weight |-> "Negative values are not permitted for weight."]
                 ELSE IF Val(weight) > MAX_WEIGHT
                      THEN [weight |->
                              "Weight cannot exceed 10,000 kg. Please check the weight."]
                      ELSE <<>>
        countryErr ==
            IF country = Undefined \/ country = Some("")
            THEN [country |->
                    "Destination country is required. Please select a shipping destination."]
            ELSE <<>>
        errors == Spread(Spread(nameErr, weightErr), countryErr)
    IN  [isValid |-> DOMAIN errors = {}, errors |-> errors]

\* validateBoxForm on form data whose weight is a text, as the weight input
\* gives it: the empty text is falsy, and the others go through parseFloat.
validateBoxFormText(formData) ==
    LET text == Get(formData, "weight")
        weight == IF text = Undefined THEN Undefined ELSE ParseFloat(Val(text))
        weightErr ==
            IF text = Undefined \/ text = Some("")
            THEN [weight |->
                    "Weight is required. Please enter the package weight in kilograms."]
            ELSE IF weight = Undefined
            THEN [weight |-> "Please enter a valid numeric weight value."]
            ELSE IF Val(weight) < 0
            THEN [weight |-> "Negative values are not permitted for weight."]
            ELSE IF Val(weight) = 0
            THEN [weight |-> "Weight must be greater than 0 kg."]
            ELSE IF Val(weight) > MAX_WEIGHT
            THEN [weight |->
                    "Weight cannot exceed 10,000 kg. Please check the weight."]
            ELSE <<>>
        \* the rules of the name and of the country do not read the weight
        others == validateBoxForm(
                      [k \in DOMAIN formData \ {"weight"} |-> formData[k]]
                          @@ [weight |-> 100]).errors
        errors == Spread(others, weightErr)
    IN  [isValid |-> DOMAIN errors = {}, errors |-> errors]

(* ----------------------------- action API ----------------------------- *)

\* A catch that returns the failure without dispatching SET_ERROR.
FailureWithoutDispatch(s, msg) ==
    [state |-> s, result |-> [success |-> FALSE, error |-> msg]]

Failure(s, msg) ==
    [state |-> boxReducer(s, [type |-> "SET_ERROR", payload |-> msg]),
     result |-> [success |-> FALSE, error |-> msg]]

\* addBox giving a cost of zero to a country without a rate instead of failing.
addBoxCallDefaultsCost(s, boxData, id, t) ==
    LET s1 == boxReducer(s, [type |-> "SET_LOADING", payload |-> TRUE])
    IN  IF boxData = Undefined
        THEN Failure(s1, "Invalid box data provided") @@ [carried |-> Undefined]
        ELSE LET shippingCost ==
                     calculateShippingCost(Get(Val(boxData), "weight"),
                                           Get(Val(boxData), "country"))
             IN  [state |-> s1,
                  carried |-> Some(Spread(Val(boxData),
                       [id |-> id,
                        shippingCost |-> IF shippingCost.threw THEN 0
                                         ELSE shippingCost.value,
                        createdAt |-> t, updatedAt |-> t]))]

\* addBox up to its await: the state it leaves, and either the failure it
\* returns or the record it carries through the delay.
addBoxCall(s, boxData, id, t) ==
    LET s1 == boxReducer(s, [type |-> "SET_LOADING", payload |-> TRUE])
    IN  IF boxData = Undefined
        THEN Failure(s1, "Invalid box data provided") @@ [carried |-> Undefined]
        ELSE LET shippingCost ==
                     calculateShippingCost(Get(Val(boxData), "weight"),
                                           Get(Val(boxData), "country"))
             IN  IF shippingCost.threw
                 THEN Failure(s1, shippingCost.message) @@ [carried |-> Undefined]
                 ELSE [state |-> s1,
                       carried |-> Some(Spread(Val(boxData),
                            [id |-> id, shippingCost |-> shippingCost.value,
                             createdAt |-> t, updatedAt |-> t]))]

\* addBox returning after its await without dispatching ADD_BOX.
addBoxResumeDropped(s, boxWithDetails) ==
    [state |-> boxReducer(s, [type |-> "SET_LOADING", payload |-> FALSE]),
     result |-> [success |-> TRUE, message |-> BOX_ADDED,
                 boxId |-> boxWithDetails.id]]

\* addBox after its await.
\* addBox dispatching, after its await, the list of the new box alone in
\* place of the boxes stored.
addBoxResumeReplaces(s, boxWithDetails) ==
    [state |-> boxReducer(s, [type |-> "LOAD_BOXES",
                              payload |-> <<boxWithDetails>>]),
     result |-> [success |-> TRUE, message |-> BOX_ADDED,
                 boxId |-> boxWithDetails.id]]

addBoxResume(s, boxWithDetails) ==
    [state |-> boxReducer(s, [type |-> "ADD_BOX", payload |-> boxWithDetails]),
     result |-> [success |-> TRUE, message |-> BOX_ADDED,
                 boxId |-> boxWithDetails.id]]

\* removeBox refusing an id that no box has.
removeBoxRequiresMatch(s, boxId) ==
    IF boxId = Undefined
    THEN Failure(s, "Box ID is required")
    ELSE IF \A k \in 1..Len(s.boxes) : Get(s.boxes[k], "id") # boxId
         THEN Failure(s, "Box not found")
         ELSE [state |-> boxReducer(s, [type |-> "REMOVE_BOX", payload |-> Val(boxId)]),
               result |-> [success |-> TRUE, message |-> "Box removed successfully"]]

removeBox(s, boxId) ==
    IF boxId = Undefined
    THEN Failure(s, "Box ID is required")
    ELSE [state |-> boxReducer(s, [type |-> "REMOVE_BOX", payload |-> Val(boxId)]),
          result |-> [success |-> TRUE, message |-> "Box removed successfully"]]

\* boxes.find(b => b.id === boxId)
RECURSIVE Find(_, _)
Find(boxes, boxId) ==
    IF boxes = <<>> THEN Undefined
    ELSE IF Get(Head(boxes), "id") = boxId THEN Some(Head(boxes))
         ELSE Find(Tail(boxes), boxId)

\* updateBox, reading the boxes its closure captured.
updateBox(s, closureBoxes, boxId, updates, t) ==
    IF boxId = Undefined \/ updates = Undefined
    THEN Failure(s, "Box ID and updates are required")
    ELSE LET u == Val(updates)
             box == IF "weight" \in DOMAIN u \/ "country" \in DOMAIN u
                    THEN Find(closureBoxes, boxId) ELSE Undefined
             newWeight == IF "weight" \in DOMAIN u THEN Some(u.weight)
                          ELSE Get(Val(box), "weight")
             newCountry == IF "country" \in DOMAIN u THEN Some(u.country)
                           ELSE Get(Val(box), "country")
             cost == IF box = Undefined THEN Returned(0)
                     ELSE calculateShippingCost(newWeight, newCountry)
             withCost == IF box = Undefined THEN u
                         ELSE Spread(u, [shippingCost |-> cost.value])
         IN  IF cost.threw
             THEN Failure(s, cost.message)
             ELSE [state |-> boxReducer(s,
                        [type |-> "UPDATE_BOX",
                         payload |-> [id |-> Val(boxId),
                                      updates |-> Spread(withCost, [updatedAt |-> t])]]),
                   result |-> [success |-> TRUE,
                               message |-> "Box updated successfully"]]

\* clearError going through SET_ERROR with no message.
clearErrorBySetError(s) == boxReducer(s, [type |-> "SET_ERROR", payload |-> Null])

clearError(s) == boxReducer(s, [type |-> "CLEAR_ERROR"])

refreshStatistics(s) == boxReducer(s, [type |-> "UPDATE_STATISTICS"])

(* ------------------------------- inputs ------------------------------- *)

Candidates ==
    { [receiverName |-> "Alice", weight |-> 200, boxColor |-> "(255, 0, 0)",
       country |-> "China"],
      [id |-> 1, shippingCost |-> 1, receiverName |-> "", weight |-> -100,
       boxColor |-> "(0, 0, 0)", country |-> "sweden"],
      [receiverName |-> "Alice", weight |-> 200, boxColor |-> "(255, 0, 0)",
       country |-> "Mars"] }

BoxDataInputs == {Undefined} \cup {Some(c) : c \in Candidates}

Updates ==
    { [weight |-> 1000], [country |-> "Brazil"], [country |-> "Mars"],
      [shippingCost |-> 999], [id |-> 1] }

UpdatesInputs == {Undefined} \cup {Some(u) : u \in Updates}

\* Every id generateId can have handed out, one it has not, and no id at all.
BoxIdInputs == {Undefined} \cup {Some(i) : i \in 1..(MaxAdds + 1)}

(* ------------------------------- view --------------------------------- *)

\* hexToRgb on the colours of the model: "(r, g, b)" in decimal, and
\* "(0, 0, 0)" for a text that is not six hexadecimal digits.
hexToRgb(hex) ==
    CASE hex = "#3498db" -> "(52, 152, 219)"
      [] hex = "#ff0000" -> "(255, 0, 0)"
      [] OTHER -> "(0, 0, 0)"

initialFormState ==
    [receiverName |-> "", weight |-> "", boxColor |-> DEFAULT_BOX_COLOR,
     country |-> ""]

\* The view after mounting AddBox: useBoxForm's and useNotification's initial
\* states, no timer set by Notification's effect, and the time the
\* notification has been visible.
InitialUi ==
    [route |-> "form",
     formData |-> initialFormState,
     errors |-> <<>>,
     isSubmitting |-> FALSE,
     notification |-> [message |-> "", type |-> "info", isVisible |-> FALSE],
     timer |-> Undefined,
     shownFor |-> 0]

\* The form data as validateBoxForm reads it: an empty weight text is falsy,
\* any other is parsed.
FormValues(formData) ==
    IF ParseFloat(formData.weight) = Undefined
    THEN [receiverName |-> formData.receiverName, boxColor |-> formData.boxColor,
          country |-> formData.country]
    ELSE [receiverName |-> formData.receiverName, boxColor |-> formData.boxColor,
          country |-> formData.country, weight |-> Val(ParseFloat(formData.weight))]

getSubmissionData(formData) ==
    [receiverName |-> Trim(formData.receiverName),
     weight |-> Val(ParseFloat(formData.weight)),
     boxColor |-> hexToRgb(formData.boxColor),
     country |-> formData.country]

\* errors.field is truthy.
HasError(errors, field) == field \in DOMAIN errors /\ errors[field] # ""

\* showNotification, and Notification's effect after it: isVisible going from
\* false to true sets a timer; a notification shown over a visible one leaves
\* the effect's dependencies as they were, and with them the timer.
showNotification(u, message, type) ==
    [u EXCEPT !.notification = [message |-> message, type |-> type,
                                isVisible |-> TRUE],
              !.timer = IF u.notification.isVisible THEN u.timer ELSE Some(0),
              !.shownFor = 0]

\* hideNotification, and the effect's cleanup clearing the timer.
hideNotification(u) ==
    [u EXCEPT !.notification.isVisible = FALSE, !.timer = Undefined,
              !.shownFor = 0]

\* validateAndShowErrors' message, from the errors of the last render.
missingFieldsMessage(errors) ==
    LET names == (IF HasError(errors, "receiverName") THEN <<"Receiver Name">> ELSE <<>>)
                 \o (IF HasError(errors, "weight") THEN <<"Weight">> ELSE <<>>)
                 \o (IF HasError(errors, "country")
                     THEN <<"Destination Country">> ELSE <<>>)
        RECURSIVE Join(_)
        Join(q) == IF Len(q) = 1 THEN q[1] ELSE q[1] \o ", " \o Join(Tail(q))
    IN  IF Len(names) > 0
        THEN "Please fill in the following required fields: " \o Join(names)
        ELSE "Please correct the errors in the form before submitting."

\* handleFormSubmission after `await submitAction()`: handleSuccess or
\* handleError, then setIsSubmitting(false).
afterSubmit(u, result) ==
    IF result.success
    THEN [showNotification(u, result.message, "success")
             EXCEPT !.formData = initialFormState, !.errors = <<>>,
                    !.isSubmitting = FALSE]
    ELSE [showNotification(u,
             "An error occurred while saving the box. Please try again.", "error")
             EXCEPT !.isSubmitting = FALSE]

(* ------------------------------ actions ------------------------------- *)

\* What `last` keeps of the state a call started from: how many boxes it had.
Before(s) == Len(s.boxes)

\* The view has rendered since the last dispatch: its callbacks are current.
Rendered == captured = state.boxes

Init ==
    /\ state = createInitialState
    /\ pending = <<>>
    /\ nextId = 0
    /\ now = 0
    /\ captured = <<>>
    /\ nUpdates = 0
    /\ last = [op |-> "none"]
    /\ ui = InitialUi

\* A call of addBox, up to its await.
AddBoxStart ==
    /\ Rendered
    /\ \E boxData \in BoxDataInputs :
        LET r == addBoxCall(state, boxData, generateId(nextId), now)
        IN  /\ r.carried # Undefined => nextId < MaxAdds
            /\ state' = r.state
            /\ IF r.carried = Undefined
               THEN /\ pending' = pending
                    /\ nextId' = nextId
                    /\ now' = now
                    /\ last' = [op |-> "addBox", boxData |-> boxData,
                                before |-> Before(state), returned |-> TRUE,
                                result |-> r.result]
               ELSE /\ pending' =
                         Append([k \in 1..Len(pending) |->
                                    [pending[k] EXCEPT !.overlapped = TRUE]],
                                [boxData |-> Val(boxData), box |-> Val(r.carried),
                                 overlapped |-> pending # <<>>, caller |-> "api"])
                    /\ nextId' = nextId + 1
                    /\ now' = now + 1
                    /\ last' = [op |-> "addBox", boxData |-> boxData,
                                before |-> Before(state), returned |-> FALSE]
    /\ UNCHANGED <<captured, nUpdates, ui>>

\* The delay of the oldest waiting addBox ends (equal delays end in order), and
\* the submit handler that awaited it, if its form is still mounted, goes on.
AddBoxDone ==
    /\ Rendered
    /\ pending # <<>>
    /\ LET p == Head(pending)
           r == addBoxResume(state, p.box)
       IN  /\ state' = r.state
           /\ last' = [op |-> "addBoxDone", boxData |-> Some(p.boxData),
                       box |-> p.box, overlapped |-> p.overlapped,
                       caller |-> p.caller,
                       before |-> Before(state), returned |-> TRUE,
                       result |-> r.result]
           /\ ui' = IF p.caller = "form" THEN afterSubmit(ui, r.result) ELSE ui
    /\ pending' = Tail(pending)
    /\ UNCHANGED <<nextId, now, captured, nUpdates>>

RemoveBox ==
    /\ Rendered
    /\ \E boxId \in BoxIdInputs :
        LET r == removeBox(state, boxId)
        IN  /\ state' = r.state
            /\ last' = [op |-> "removeBox", boxId |-> boxId,
                        before |-> Before(state), returned |-> TRUE,
                        result |-> r.result]
    /\ UNCHANGED <<pending, nextId, now, captured, nUpdates, ui>>

\* A call of updateBox, the first of its handler or back to back with another.
UpdateBox ==
    /\ nUpdates < MaxUpdates
    /\ \E boxId \in BoxIdInputs, updates \in UpdatesInputs :
        LET r == updateBox(state, captured, boxId, updates, now)
        IN  /\ state' = r.state
            /\ last' = [op |-> "updateBox", boxId |-> boxId, updates |-> updates,
                        before |-> Before(state), returned |-> TRUE,
                        result |-> r.result]
    /\ nUpdates' = nUpdates + 1
    /\ now' = now + 1
    /\ UNCHANGED <<pending, nextId, captured, ui>>

ClearError ==
    /\ Rendered
    /\ state' = clearError(state)
    /\ last' = [op |-> "clearError", before |-> Before(state), returned |-> TRUE]
    /\ UNCHANGED <<pending, nextId, now, captured, nUpdates, ui>>

RefreshStatistics ==
    /\ Rendered
    /\ state' = refreshStatistics(state)
    /\ last' = [op |-> "refreshStatistics", before |-> Before(state),
                returned |-> TRUE]
    /\ UNCHANGED <<pending, nextId, now, captured, nUpdates, ui>>

\* The provider renders: updateBox is created again over the current boxes.
Render ==
    /\ ~Rendered
    /\ captured' = state.boxes
    /\ UNCHANGED <<state, pending, nextId, now, nUpdates, last, ui>>

Next ==
    \/ AddBoxStart
    \/ AddBoxDone
    \/ RemoveBox
    \/ UpdateBox
    \/ ClearError
    \/ RefreshStatistics
    \/ Render

Spec == Init /\ [][Next]_vars

\* The reducer is also given LOAD_BOXES, which no function of the action API
\* dispatches: the boxes of the payload replace the ones stored.  A loaded box
\* was given its id by generateId when it was made, and lacks the fields the
\* statistics default to zero.
LoadPayloads ==
    { <<>>,
      <<[id |-> generateId(nextId), receiverName |-> "Bob", country |-> "Sweden"]>> }

DispatchLoad ==
    /\ Rendered
    /\ \E boxes \in LoadPayloads :
        /\ nextId + Len(boxes) <= MaxAdds
        /\ state' = boxReducer(state, [type |-> "LOAD_BOXES", payload |-> boxes])
        /\ nextId' = nextId + Len(boxes)
        /\ last' = [op |-> "load", before |-> Before(state), returned |-> TRUE]
    /\ UNCHANGED <<pending, now, captured, nUpdates, ui>>

NextLoad == Next \/ DispatchLoad

SpecLoad == Init /\ [][NextLoad]_vars

\* The reducer is also given actions that no function of the action API
\* dispatches: SET_ERROR with a message of the caller's, ADD_BOX and
\* UPDATE_BOX without a payload, and an action of an unknown type.
RawActions ==
    { [type |-> "SET_ERROR", payload |-> "Network down"],
      [type |-> "ADD_BOX"],
      [type |-> "UPDATE_BOX"],
      [type |-> "RESET"] }

DispatchRaw ==
    /\ Rendered
    /\ \E action \in RawActions :
        /\ state' = boxReducer(state, action)
        /\ last' = [op |-> "dispatch", action |-> action,
                    threw |-> Throws(state, action),
                    before |-> Before(state), returned |-> TRUE]
    /\ UNCHANGED <<pending, nextId, now, captured, nUpdates, ui>>

NextDispatch == Next \/ DispatchRaw

SpecDispatch == Init /\ [][NextDispatch]_vars

\* The view over the store: the AddBox form at the root path and BoxList at
\* /boxes, under one BoxProvider.  The user fills in the fields of the form,
\* submits, closes the notification, and changes route; time passes by half
\* the notification's duration.

\* What the user enters into each field.
FormInputs ==
    [receiverName : {"Alice"}, weight : {"2"}, country : {"CHINA"}]

\* handleChange for a field: the value is stored and the field's error, if
\* any, is emptied.
HandleChange ==
    /\ Rendered
    /\ ui.route = "form"
    /\ \E name \in {"receiverName", "weight", "country"} :
        \E value \in {f[name] : f \in FormInputs} :
            /\ ui.formData[name] # value
            /\ ui' = [ui EXCEPT
                        !.formData = Spread(ui.formData, name :> value),
                        !.errors =
                            IF name = "weight"
                            THEN IF ParseFloat(value) # Undefined
                                    /\ Val(ParseFloat(value)) >= 0
                                 THEN Spread(ui.errors, name :> "")
                                 ELSE ui.errors
                            ELSE IF HasError(ui.errors, name)
                                 THEN Spread(ui.errors, name :> "")
                                 ELSE ui.errors]
    /\ UNCHANGED <<state, pending, nextId, now, captured, nUpdates, last>>

\* handleSubmit: clearError, then handleFormSubmission's handler up to its
\* await.  The submit button is disabled while isSubmitting or loading.
HandleSubmit ==
    /\ Rendered
    /\ ui.route = "form"
    /\ ~(ui.isSubmitting \/ state.loading)
    /\ LET s0 == clearError(state)
           validation == validateBoxForm(FormValues(ui.formData))
           shown == [ui EXCEPT !.errors = validation.errors]
       IN  IF ~validation.isValid
           THEN /\ state' = s0
                /\ ui' = showNotification(shown, missingFieldsMessage(ui.errors),
                                          "error")
                /\ last' = [op |-> "submit", error |-> state.error,
                            before |-> Before(state), returned |-> TRUE]
                /\ UNCHANGED <<pending, nextId, now>>
           ELSE LET boxData == Some(getSubmissionData(ui.formData))
                    r == addBoxCall(s0, boxData, generateId(nextId), now)
                IN  /\ r.carried # Undefined => nextId < MaxAdds
                    /\ state' = r.state
                    /\ IF r.carried = Undefined
                       THEN /\ ui' = afterSubmit(shown, r.result)
                            /\ last' = [op |-> "addBox", boxData |-> boxData,
                                        before |-> Before(state),
                                        returned |-> TRUE, result |-> r.result]
                            /\ UNCHANGED <<pending, nextId, now>>
                       ELSE /\ ui' = [shown EXCEPT !.isSubmitting = TRUE]
                            /\ pending' =
                                 Append([k \in 1..Len(pending) |->
                                            [pending[k] EXCEPT !.overlapped = TRUE]],
                                        [boxData |-> Val(boxData),
                                         box |-> Val(r.carried),
                                         overlapped |-> pending # <<>>,
                                         caller |-> "form"])
                            /\ nextId' = nextId + 1
                            /\ now' = now + 1
                            /\ last' = [op |-> "addBox", boxData |-> boxData,
                                        before |-> Before(state),
                                        returned |-> FALSE]
    /\ UNCHANGED <<captured, nUpdates>>

\* The user follows a link of the navigation bar.  Leaving the form unmounts
\* AddBox: its state is gone, the effect's cleanup clears the timer, and what
\* a waiting submit handler sets afterwards has no effect.
Navigate ==
    /\ Rendered
    /\ IF ui.route = "form"
       THEN /\ ui' = [InitialUi EXCEPT !.route = "list"]
            /\ pending' = [k \in 1..Len(pending) |->
                              IF pending[k].caller = "form"
                              THEN [pending[k] EXCEPT !.caller = "unmounted"]
                              ELSE pending[k]]
       ELSE /\ ui' = InitialUi
            /\ pending' = pending
    /\ UNCHANGED <<state, nextId, now, captured, nUpdates, last>>

\* The user closes the notification.
Dismiss ==
    /\ Rendered
    /\ ui.notification.isVisible
    /\ ui' = hideNotification(ui)
    /\ UNCHANGED <<state, pending, nextId, now, captured, nUpdates, last>>

\* Half the duration passes; time does not pass beyond the moment a timer is due.
Tick ==
    /\ ui.timer # Undefined
    /\ Val(ui.timer) < DURATION
    /\ ui' = [ui EXCEPT
                !.timer = Some(Val(ui.timer) + DURATION \div 2),
                !.shownFor = IF ui.shownFor + DURATION \div 2 > DURATION
                             THEN DURATION ELSE ui.shownFor + DURATION \div 2]
    /\ UNCHANGED <<state, pending, nextId, now, captured, nUpdates, last>>

\* The timer of Notification's effect fires: onClose.
TimerFire ==
    /\ ui.timer = Some(DURATION)
    /\ ui' = hideNotification(ui)
    /\ UNCHANGED <<state, pending, nextId, now, captured, nUpdates, last>>

\* The form, the list's removeBox and the store, no time passing for the
\* notification.
NextView ==
    \/ HandleChange
    \/ HandleSubmit
    \/ AddBoxDone
    \/ Navigate
    \/ Dismiss
    \/ RemoveBox
    \/ Render

SpecView == Init /\ [][NextView]_vars

\* The timer of addBox's setTimeout fires once its delay has passed, and
\* React renders after a dispatch.
SpecViewFair == SpecView /\ WF_vars(AddBoxDone) /\ WF_vars(Render)

\* The form and its notification, time passing.
NextNotify ==
    \/ HandleChange
    \/ HandleSubmit
    \/ AddBoxDone
    \/ Navigate
    \/ Dismiss
    \/ Tick
    \/ TimerFire
    \/ Render

SpecNotify == Init /\ [][NextNotify]_vars

\* The fields a handler changes one at a time: the weight, the country.
FieldUpdates == {[weight |-> 1000], [country |-> "Brazil"]}

\* A handler of a view calls updateBox, through the callback the view was
\* rendered with, for a box the view shows and one field; it may do so again
\* before the provider renders.
UpdateShownBox ==
    /\ nUpdates < MaxBurst
    /\ \E k \in 1..Len(captured), fields \in FieldUpdates :
        LET boxId == Get(captured[k], "id")
            r == updateBox(state, captured, boxId, Some(fields), now)
        IN  /\ state' = r.state
            /\ last' = [op |-> "updateBox", boxId |-> boxId,
                        updates |-> Some(fields),
                        before |-> Before(state), returned |-> TRUE,
                        result |-> r.result]
    /\ nUpdates' = nUpdates + 1
    /\ now' = now + 1
    /\ UNCHANGED <<pending, nextId, captured, ui>>

NextShown ==
    \/ AddBoxStart
    \/ AddBoxDone
    \/ UpdateShownBox
    \/ Render

SpecShown == Init /\ [][NextShown]_vars

(* --------------------------- pure functions --------------------------- *)

\* The state in which nothing but a call of a function of utils happens.
Idle ==
    /\ state = createInitialState
    /\ pending = <<>>
    /\ nextId = 0
    /\ now = 0
    /\ captured = <<>>
    /\ nUpdates = 0
    /\ ui = InitialUi

\* The weights calculateShippingCost is called with, in hundredths of a kg,
\* and the countries: the keys of the rates as written, in lower case and
\* capitalised, a country without a rate, the empty string and none.
PriceWeights ==
    {Undefined} \cup {Some(w) : w \in (0 - MaxPriceWeight)..MaxPriceWeight}

PriceCountries ==
    {Undefined, Some(""), Some("Mars")}
    \cup {Some(c) : c \in {"SWEDEN", "Sweden", "sweden", "CHINA", "China", "china",
                           "BRAZIL", "Brazil", "brazil",
                           "AUSTRALIA", "Australia", "australia"}}

InitPrice ==
    /\ Idle
    /\ \E weight \in PriceWeights, country \in PriceCountries :
        last = [op |-> "price", weight |-> weight, country |-> country,
                returned |-> FALSE]

\* calculateShippingCost is applied to the arguments.
PriceCall ==
    /\ last.op = "price"
    /\ ~last.returned
    /\ last' = [op |-> "price", weight |-> last.weight, country |-> last.country,
                returned |-> TRUE,
                result |-> calculateShippingCost(last.weight, last.country)]
    /\ UNCHANGED <<state, pending, nextId, now, captured, nUpdates, ui>>

NextPrice == PriceCall

SpecPrice == InitPrice /\ [][NextPrice]_vars

\* The form data validateBoxForm is called with: each field absent or with a
\* value of its rule's cases, the weight being a number or a text.
Name100 ==
    "aaaaaaaaaaaaaaaaaaaaaaaaaaaaaaaaaaaaaaaaaaaaaaaaaaaaaaaaaaaaaaaaaaaaaaaaaaaaaaaaaaaaaaaaaaaaaaaaaaaa"

ValidateNames ==
    {Undefined, Some(""), Some("  "), Some("Alice"), Some(Name100),
     Some(Name100 \o "a")}

ValidateWeights ==
    {Undefined, Some(0), Some(-100), Some(150), Some(MAX_WEIGHT),
     Some(MAX_WEIGHT + 1)}

ValidateWeightTexts ==
    {Some(""), Some("abc"), Some("2kg"), Some("0"), Some("-1"), Some("2"),
     Some("10000"), Some("10000.01")}

ValidateCountries == {Undefined, Some(""), Some("Sweden"), Some("Mars")}

Field(k, v) == IF v = Undefined THEN <<>> ELSE [x \in {k} |-> Val(v)]

FormDataOf(name, weight, country) ==
    Spread(Spread(Field("receiverName", name), Field("weight", weight)),
           Field("country", country))

InitValidate ==
    /\ Idle
    /\ \E name \in ValidateNames, country \in ValidateCountries :
        \/ \E weight \in ValidateWeights :
              last = [op |-> "validate", text |-> FALSE, returned |-> FALSE,
                      formData |-> FormDataOf(name, weight, country)]
        \/ \E weight \in ValidateWeightTexts :
              last = [op |-> "validate", text |-> TRUE, returned |-> FALSE,
                      formData |-> FormDataOf(name, weight, country)]

\* validateBoxForm is applied to form data whose weight is a number or absent.
ValidateCall ==
    /\ last.op = "validate"
    /\ ~last.returned
    /\ ~last.text
    /\ last' = [op |-> "validate", formData |-> last.formData, text |-> FALSE,
                returned |-> TRUE, result |-> validateBoxForm(last.formData)]
    /\ UNCHANGED <<state, pending, nextId, now, captured, nUpdates, ui>>

\* validateBoxForm is applied to form data whose weight is a text.
ValidateTextCall ==
    /\ last.op = "validate"
    /\ ~last.returned
    /\ last.text
    /\ last' = [op |-> "validate", formData |-> last.formData, text |-> TRUE,
                returned |-> TRUE, result |-> validateBoxFormText(last.formData)]
    /\ UNCHANGED <<state, pending, nextId, now, captured, nUpdates, ui>>

NextValidate == ValidateCall \/ ValidateTextCall

SpecValidate == InitValidate /\ [][NextValidate]_vars

\* The delay the debounced function is made with, in milliseconds, and the
\* arguments it is called with.
DELAY == 100

DebounceArgs == {"arg1", "arg2", "arg3"}

\* clearTimeout(timeoutId): the timer of that id, if it is still set, is not.
clearTimeout(timers, timeoutId) ==
    SelectSeq(timers, LAMBDA t : Some(t.id) # timeoutId)

\* A debounced function that sets its timer without clearing the one before.
debouncedKeepsTimers(timers, timeoutId, args, id, t) ==
    Append(timers, [id |-> id, args |-> args, due |-> t + DELAY])

\* The function debounce returns, called at time t: the timer of timeoutId is
\* cleared and a timer of a new id is set, which applies func to args.
debounced(timers, timeoutId, args, id, t) ==
    Append(clearTimeout(timers, timeoutId),
           [id |-> id, args |-> args, due |-> t + DELAY])

\* debounce(func, DELAY) has been called: timeoutId is undefined, pending holds
\* the timers that are set, and last the calls of the debounced function and
\* those of func.
InitDebounce ==
    /\ Idle
    /\ last = [op |-> "debounce", timeoutId |-> Undefined, called |-> <<>>,
               invoked |-> <<>>]

DebouncedCall ==
    /\ last.op = "debounce"
    /\ Len(last.called) < MaxCalls
    /\ \E args \in DebounceArgs :
        LET id == Len(last.called) + 1
        IN  /\ pending' = debounced(pending, last.timeoutId, args, id, now)
            /\ last' = [last EXCEPT !.timeoutId = Some(id),
                                    !.called = Append(@, [args |-> args, at |-> now])]
    /\ UNCHANGED <<state, nextId, now, captured, nUpdates, ui>>

\* Half a delay passes, no timer being due.
DebounceTick ==
    /\ last.op = "debounce"
    /\ now < MaxCalls * DELAY
    /\ \A k \in 1..Len(pending) : pending[k].due > now
    /\ now' = now + DELAY \div 2
    /\ UNCHANGED <<state, pending, nextId, captured, nUpdates, last, ui>>

\* A timer that is due fires: func is applied to the arguments of its call.
DebounceFire ==
    /\ last.op = "debounce"
    /\ \E k \in 1..Len(pending) :
        /\ pending[k].due <= now
        /\ pending' = SelectSeq(pending, LAMBDA t : t.id # pending[k].id)
        /\ last' = [last EXCEPT !.invoked =
                        Append(@, [args |-> pending[k].args, at |-> now,
                                   after |-> Len(last.called)])]
    /\ UNCHANGED <<state, nextId, now, captured, nUpdates, ui>>

NextDebounce == DebouncedCall \/ DebounceTick \/ DebounceFire

SpecDebounce == InitDebounce /\ [][NextDebounce]_vars

\* rgbToColor reads its argument character by character: a string is the
\* sequence of its characters here, and no string (null, a number) is none.
IsDigit(c) == c \in {"0", "1", "2", "3", "4", "5", "6", "7", "8", "9"}

\* \s, of which the strings of the model have the blank only.
IsSpace(c) == c = " "

\* The end of \d+ or \s* from position i: the first position from i on whose
\* character is not of the class, which the literal that follows in the
\* pattern has to match.
RECURSIVE SkipDigits(_, _)
SkipDigits(str, i) ==
    IF i <= Len(str) /\ IsDigit(str[i]) THEN SkipDigits(str, i + 1) ELSE i

RECURSIVE SkipSpaces(_, _)
SkipSpaces(str, i) ==
    IF i <= Len(str) /\ IsSpace(str[i]) THEN SkipSpaces(str, i + 1) ELSE i

\* The groups of /\((\d+),\s*(\d+),\s*(\d+)\)/ matched from position i on, if
\* they are.
MatchAt(str, i) ==
    LET r == i + 1
        rEnd == SkipDigits(str, r)
        g == SkipSpaces(str, rEnd + 1)
        gEnd == SkipDigits(str, g)
        b == SkipSpaces(str, gEnd + 1)
        bEnd == SkipDigits(str, b)
    IN  IF /\ i <= Len(str) /\ str[i] = "("
           /\ rEnd > r /\ rEnd <= Len(str) /\ str[rEnd] = ","
           /\ gEnd > g /\ gEnd <= Len(str) /\ str[gEnd] = ","
           /\ bEnd > b /\ bEnd <= Len(str) /\ str[bEnd] = ")"
        THEN Some(<<SubSeq(str, r, rEnd - 1), SubSeq(str, g, gEnd - 1),
                    SubSeq(str, b, bEnd - 1)>>)
        ELSE Undefined

\* String.prototype.match: the match that starts first, from position i on.
RECURSIVE Match(_, _)
Match(str, i) ==
    IF i > Len(str) THEN Undefined
    ELSE IF MatchAt(str, i) # Undefined THEN MatchAt(str, i)
    ELSE Match(str, i + 1)

\* The string of a sequence of characters.
RECURSIVE JoinChars(_)
JoinChars(chars) == IF chars = <<>> THEN "" ELSE Head(chars) \o JoinChars(Tail(chars))

rgbToColor(rgbString) ==
    IF rgbString = Undefined \/ rgbString = Some(<<>>)
    THEN "#000000"
    ELSE LET matches == Match(Val(rgbString), 1)
         IN  IF matches = Undefined THEN "#000000"
             ELSE "rgb(" \o JoinChars(Val(matches)[1]) \o ", "
                         \o JoinChars(Val(matches)[2]) \o ", "
                         \o JoinChars(Val(matches)[3]) \o ")"

\* The strings rgbToColor is called with: what is written before the
\* parenthesis, the parts, what separates them, and what is written after.
ColorParts == {<<"2", "5", "5">>, <<"0">>, <<"f", "f">>, <<>>}

ColorSeparators == {<<",", " ">>, <<",">>, <<" ">>}

ColorPrefixes == {<<>>, <<"r", "g", "b">>, <<" ">>}

ColorSuffixes == {<<>>, <<";">>}

ColorStrings ==
    {<<>>, <<"i", "n", "v", "a", "l", "i", "d">>}
    \cup { prefix \o <<"(">> \o r \o sep \o g \o <<")">> \o suffix :
             prefix \in ColorPrefixes, r \in ColorParts, g \in ColorParts,
             sep \in ColorSeparators, suffix \in ColorSuffixes }
    \cup { prefix \o <<"(">> \o r \o sep \o g \o sep \o b \o <<")">> \o suffix :
             prefix \in ColorPrefixes, r \in ColorParts, g \in ColorParts,
             b \in ColorParts, sep \in ColorSeparators,
             suffix \in ColorSuffixes }

InitColor ==
    /\ Idle
    /\ \E rgbString \in {Undefined} \cup {Some(str) : str \in ColorStrings} :
        last = [op |-> "rgbToColor", rgbString |-> rgbString,
                returned |-> FALSE]

\* rgbToColor is applied to the argument.
ColorCall ==
    /\ last.op = "rgbToColor"
    /\ ~last.returned
    /\ last' = [op |-> "rgbToColor", rgbString |-> last.rgbString,
                returned |-> TRUE, result |-> rgbToColor(last.rgbString)]
    /\ UNCHANGED <<state, pending, nextId, now, captured, nUpdates, ui>>

NextColor == ColorCall

SpecColor == InitColor /\ [][NextColor]_vars

(* ------------------------------- claims ------------------------------- *)

Boxes == state.boxes

Succeeded == last.returned /\ last.result.success

NoBoxHasId(boxes, id) == \A k \in 1..Len(boxes) : Get(boxes[k], "id") # id

RECURSIVE SumField(_, _, _)
SumField(boxes, field, n) ==
    IF n = 0 THEN 0
    ELSE SumField(boxes, field, n - 1) + OrZero(Get(boxes[n], field))

StatisticsOf(boxes) ==
    [totalBoxes |-> Len(boxes),
     totalWeight |-> SumField(boxes, "weight", Len(boxes)),
     totalCost |-> SumField(boxes, "shippingCost", Len(boxes))]

\* C1: in every reachable state, whatever load, add, remove, update, setError,
\* clearError and refreshStatistics transitions led to it, the statistics are
\* the number of stored records, the sum of their weights and the sum of
\* their shipping costs (a record without the field counting zero).
C1_StatisticsMatchRecords == state.statistics = StatisticsOf(Boxes)

\* An update has rewritten a record of a store of two, and the totals are
\* those of the spec's scenario after it (weight 10 to China: 115.30).
C1_Witness ==
    /\ last.op = "updateBox"
    /\ Succeeded
    /\ Len(Boxes) = 2
    /\ state.statistics.totalWeight = 1200
    /\ state.statistics.totalCost = 11530 + 2306

\* C2: every stored record's shippingCost is the price of its current weight
\* and country.
C2_CostMatchesPrice ==
    \A k \in 1..Len(Boxes) :
        LET price == calculateShippingCost(Get(Boxes[k], "weight"),
                                           Get(Boxes[k], "country"))
        IN  /\ ~price.threw
            /\ Get(Boxes[k], "shippingCost") = Some(price.value)

\* C3: an add whose candidate the validation function rejects reports failure
\* and appends no record.
C3_AddRejectsInvalid ==
    /\ last.op = "addBoxDone" => validateBoxForm(Val(last.boxData)).isValid
    /\ ( /\ last.op = "addBox"
         /\ last.boxData # Undefined
         /\ ~validateBoxForm(Val(last.boxData)).isValid )
       => /\ last.returned
          /\ ~last.result.success
          /\ Len(Boxes) = last.before

\* C4: every stored record has 0 < weight <= 10000 kg and a country of the
\* Rate Table.
C4_RecordsWithinLimits ==
    \A k \in 1..Len(Boxes) :
        /\ Get(Boxes[k], "weight") # Undefined
        /\ Boxes[k].weight > 0
        /\ Boxes[k].weight <= MAX_WEIGHT
        /\ Get(Boxes[k], "country") # Undefined
        /\ ToUpperCase(Boxes[k].country) \in DOMAIN SHIPPING_RATES

Ids(boxes) == [k \in 1..Len(boxes) |-> Get(boxes[k], "id")]

UniqueIds(boxes) ==
    \A j, k \in 1..Len(boxes) : j # k => Get(boxes[j], "id") # Get(boxes[k], "id")

\* The ids after a step are the ids before it, with a new record's id at the
\* end or with the records of one id taken out.
IdsKept ==
    \/ /\ Len(state'.boxes) \in {Len(Boxes), Len(Boxes) + 1}
       /\ SubSeq(Ids(state'.boxes), 1, Len(Boxes)) = Ids(Boxes)
    \/ \E id \in BoxIdInputs :
          Ids(state'.boxes) = SelectSeq(Ids(Boxes), LAMBDA i : i # id)

\* C5: the stored records have pairwise distinct ids, and no operation changes
\* the id of a record.
C5_IdsUniqueAndImmutable == [][UniqueIds(state'.boxes) /\ IdsKept]_vars

\* C6: a successful add appends exactly one record at the end, leaves the
\* records stored before as they were and where they were, sets error to null,
\* and the new record's shippingCost is the price of the submitted candidate.
C6_AddAppends ==
    [][AddBoxDone =>
        LET p == Head(pending)
            new == state'.boxes[Len(state'.boxes)]
            price == calculateShippingCost(Get(p.boxData, "weight"),
                                           Get(p.boxData, "country"))
        IN  /\ last'.result.success
            /\ Len(state'.boxes) = Len(Boxes) + 1
            /\ SubSeq(state'.boxes, 1, Len(Boxes)) = Boxes
            /\ state'.error = Null
            /\ ~price.threw
            /\ Get(new, "shippingCost") = Some(price.value)
            /\ \A f \in DOMAIN p.boxData \ {"id", "shippingCost"} :
                  Get(new, f) = Get(p.boxData, f)]_vars

\* An add has completed on a store that already held a record, for a candidate
\* that carried a shippingCost of its own.
C6_Witness ==
    /\ last.op = "addBoxDone"
    /\ Succeeded
    /\ Len(Boxes) >= 2
    /\ "shippingCost" \in DOMAIN Val(last.boxData)
    /\ state.error = Null

PendingIdsDistinct(q) ==
    \A j, k \in 1..Len(q) : j # k => q[j].box.id # q[k].box.id

\* C7: when an add that overlapped another one completes, its record is
\* appended to the records stored, the adds still waiting stay waiting, and
\* adds that wait together carry different ids.
C7_OverlappingAddsBothTakeEffect ==
    [][ /\ PendingIdsDistinct(pending')
        /\ (AddBoxDone /\ Head(pending).overlapped) =>
              /\ state'.boxes = Append(Boxes, Head(pending).box)
              /\ pending' = Tail(pending) ]_vars

SameCandidate(a, b) ==
    \A f \in {"receiverName", "weight", "boxColor", "country"} :
        Get(a, f) = Get(b, f)

\* Two adds of identical fields that overlapped have both completed.
C7_Witness ==
    /\ last.op = "addBoxDone"
    /\ last.overlapped
    /\ pending = <<>>
    /\ Len(Boxes) >= 2
    /\ SameCandidate(Boxes[Len(Boxes) - 1], Boxes[Len(Boxes)])
    /\ Boxes[Len(Boxes) - 1].id # Boxes[Len(Boxes)].id

\* C8: from every reachable state and for every id, a remove that matches no
\* record leaves records and statistics as they are, and a second remove of
\* the same id changes nothing the first one left.
C8_RemoveIdempotent ==
    \A id \in BoxIdInputs :
        LET once == removeBox(state, id).state
            twice == removeBox(once, id).state
        IN  /\ twice.boxes = once.boxes
            /\ twice.statistics = once.statistics
            /\ NoBoxHasId(Boxes, id) =>
                  /\ once.boxes = Boxes
                  /\ once.statistics = state.statistics

\* A remove of an id that no record has was made on a store with records.
C8_Witness ==
    /\ last.op = "removeBox"
    /\ last.boxId # Undefined
    /\ last.before = Len(Boxes)
    /\ Len(Boxes) >= 2
    /\ NoBoxHasId(Boxes, last.boxId)

\* C9: a remove that matches no record, the id being empty or absent
\* included, reports success and does not set the store's error.
C9_RemoveUnknownNeverErrors ==
    (last.op = "removeBox" /\ last.before = Len(Boxes))
        => /\ last.result.success
           /\ state.error = Null

\* C9 as amended: a remove with a non-empty id reports success and leaves the
\* store's error null, whether or not a record has that id; a remove with an
\* empty or absent id reports failure, changes no record and sets the store's
\* error to the message it returns.
C9_RemoveErrorsOnlyWithoutId ==
    last.op = "removeBox" =>
        IF last.boxId = Undefined
        THEN /\ ~last.result.success
             /\ last.result.error = "Box ID is required"
             /\ state.error = last.result.error
             /\ last.before = Len(Boxes)
        ELSE /\ last.result.success
             /\ state.error = Null

\* A remove of the id that generateId never handed out has returned.
C9_Witness ==
    /\ last.op = "removeBox"
    /\ last.boxId = Some(MaxAdds + 1)
    /\ last.before = Len(Boxes)
    /\ Len(Boxes) >= 1
    /\ last.result.success

RemoveAction(id) ==
    IF id = Undefined THEN [type |-> "REMOVE_BOX"]
    ELSE [type |-> "REMOVE_BOX", payload |-> Val(id)]

\* C10: from every reachable state and for every id, the REMOVE_BOX transition
\* takes out the records of that id and no other, keeps the others as they
\* are and in their order, and leaves loading as it is.
C10_RemoveFrame ==
    \A id \in BoxIdInputs :
        LET after == boxReducer(state, RemoveAction(id))
        IN  /\ after.boxes = SelectSeq(Boxes, LAMBDA b : Get(b, "id") # id)
            /\ after.loading = state.loading

\* A remove has taken a record out of a store that keeps another one.
C10_Witness ==
    /\ last.op = "removeBox"
    /\ Succeeded
    /\ last.before = 2
    /\ Len(Boxes) = 1

\* The step is a call of updateBox with an id and updates.
UpdateCall ==
    /\ last'.op = "updateBox"
    /\ nUpdates' = nUpdates + 1
    /\ last'.boxId # Undefined
    /\ last'.updates # Undefined

\* C11: an update of an existing record with fields whose merged weight and
\* country have a price replaces the record by the old one merged with the
\* fields (updatedAt apart); its shippingCost is the price of the merged
\* weight and country when weight or country is among the fields, and
\* otherwise the old one or the one the fields give; every other record stays
\* as it was and where it was.
C11_UpdateMergesAndReprices ==
    [][UpdateCall =>
        \A k \in 1..Len(Boxes) :
            LET u == Val(last'.updates)
                merged == Spread(Boxes[k], u)
                price == calculateShippingCost(Get(merged, "weight"),
                                               Get(merged, "country"))
            IN  /\ Len(state'.boxes) = Len(Boxes)
                /\ Get(Boxes[k], "id") # last'.boxId => state'.boxes[k] = Boxes[k]
                /\ (Get(Boxes[k], "id") = last'.boxId /\ ~price.threw) =>
                      /\ \A f \in DOMAIN merged \ {"shippingCost", "updatedAt"} :
                            Get(state'.boxes[k], f) = Some(merged[f])
                      /\ IF "weight" \in DOMAIN u \/ "country" \in DOMAIN u
                         THEN Get(state'.boxes[k], "shippingCost") = Some(price.value)
                         ELSE Get(state'.boxes[k], "shippingCost") \in
                                {Get(Boxes[k], "shippingCost"),
                                 Get(merged, "shippingCost")}]_vars

\* C12: an update with an id that no stored record has, whatever the fields
\* (an unrecognized country included) and whatever boxes the callback
\* captured, leaves the records and the statistics as they are.
C12_UpdateUnknownIdNoOp ==
    [][(last'.op = "updateBox" /\ nUpdates' = nUpdates + 1
            /\ NoBoxHasId(Boxes, last'.boxId)) =>
        /\ state'.boxes = Boxes
        /\ state'.statistics = state.statistics]_vars

\* An update to an unrecognized country was made with an id no record has,
\* on a store with records.
C12_Witness ==
    /\ last.op = "updateBox"
    /\ last.boxId # Undefined
    /\ NoBoxHasId(Boxes, last.boxId)
    /\ last.updates = Some([country |-> "Mars"])
    /\ Len(Boxes) >= 1
    /\ last.before = Len(Boxes)
    /\ Succeeded

\* The candidate has a weight above zero and a country, and the Rate Table
\* has no rate for the country.
UnknownCountry(boxData) ==
    /\ boxData # Undefined
    /\ Get(Val(boxData), "weight") # Undefined
    /\ Val(boxData).weight > 0
    /\ Get(Val(boxData), "country") \notin {Undefined, Some("")}
    /\ ToUpperCase(Val(boxData).country) \notin DOMAIN SHIPPING_RATES

\* The step is a call of addBox with a candidate of an unknown country.
UnknownCountryAdd ==
    /\ last'.op = "addBox"
    /\ UnknownCountry(last'.boxData)
    /\ AddBoxStart

\* C13: an add whose candidate has a weight above zero and a country that is
\* not in the Rate Table appends no record, returns a failure, leaves loading
\* false, and sets the store's error to the generic error message.
C13_UnknownCountryGenericError ==
    [][UnknownCountryAdd =>
        /\ state'.boxes = Boxes
        /\ pending' = pending
        /\ last'.returned
        /\ ~last'.result.success
        /\ ~state'.loading
        /\ state'.error = GENERIC_ERROR]_vars

\* C13 as amended: such an add appends no record, now or after a delay,
\* returns a failure, leaves loading false, and sets the store's error to
\* the message of the pricing error, which names the country.
C13_UnknownCountryPricingError ==
    [][UnknownCountryAdd =>
        /\ state'.boxes = Boxes
        /\ pending' = pending
        /\ last'.returned
        /\ ~last'.result.success
        /\ ~state'.loading
        /\ state'.error = "Shipping rate not found for country: "
                              \o Val(last'.boxData).country
        /\ last'.result.error = state'.error]_vars

\* An add to an unknown country has failed on a store with a record.
C13_Witness ==
    /\ last.op = "addBox"
    /\ UnknownCountry(last.boxData)
    /\ last.returned
    /\ ~last.result.success
    /\ Len(Boxes) >= 1
    /\ last.before = Len(Boxes)
    /\ state.error = "Shipping rate not found for country: Mars"

\* C14: whenever computing a reducer transition raises an exception, the
\* resulting state has error = GENERIC_ERROR and the records and statistics
\* of the state before.
C14_ReducerCatchKeepsRecords ==
    [][(last'.op = "dispatch" /\ last'.threw /\ DispatchRaw) =>
        /\ state'.error = GENERIC_ERROR
        /\ state'.boxes = Boxes
        /\ state'.statistics = state.statistics]_vars

\* An update action without a payload was dispatched on a store with records
\* and no error.
C14_Witness ==
    /\ last.op = "dispatch"
    /\ last.threw
    /\ last.action = [type |-> "UPDATE_BOX"]
    /\ Len(Boxes) >= 1
    /\ state.statistics.totalBoxes = Len(Boxes)
    /\ state.error = GENERIC_ERROR

\* The last call of the action API after the step is one of addBox (or the
\* end of its delay), removeBox and updateBox: the step is that call, or a
\* render after it.
ApiCall == last'.op \in {"addBox", "addBoxDone", "removeBox", "updateBox"}

\* C15: addBox, removeBox and updateBox, whatever their arguments (no data,
\* no id, an unknown country), end by returning a result whose success is
\* true or false, an addBox that has not returned being in its delay; and a
\* call that returns success false leaves the records as they were and the
\* store's error equal to the error message it returns.
C15_ApiReturnsResults ==
    [][ApiCall =>
        /\ ~last'.returned =>
              /\ last'.op = "addBox"
              /\ pending' # <<>>
              /\ pending'[Len(pending')].box.id = nextId'
        /\ last'.returned =>
              /\ last'.result.success \in BOOLEAN
              /\ ~last'.result.success =>
                    /\ state'.boxes = Boxes
                    /\ pending' = pending
                    /\ state'.error = last'.result.error
                    /\ state'.error # Null]_vars

\* An update of a stored record to an unknown country has returned a failure.
C15_Witness ==
    /\ last.op = "updateBox"
    /\ last.returned
    /\ ~last.result.success
    /\ ~NoBoxHasId(Boxes, last.boxId)
    /\ last.updates = Some([country |-> "Mars"])
    /\ state.error = "Shipping rate not found for country: Mars"

\* C16: a SET_ERROR transition changes only the error, which becomes the
\* message, and loading, which becomes false; clearError changes only the
\* error, which becomes null, and a second clearError changes nothing more.
C16_ErrorTransitionsFrame ==
    [][ /\ (last'.op = "dispatch" /\ last'.action.type = "SET_ERROR"
                /\ DispatchRaw) =>
              state' = [state EXCEPT !.error = last'.action.payload,
                                     !.loading = FALSE]
        /\ (last'.op = "clearError" /\ ClearError) =>
              /\ state' = [state EXCEPT !.error = Null]
              /\ clearError(state') = state' ]_vars

\* clearError was called during the delay of an add, on a store with records.
C16_Witness ==
    /\ last.op = "clearError"
    /\ state.error = Null
    /\ state.loading
    /\ pending # <<>>
    /\ Len(Boxes) >= 1

\* C17: in every reachable state, loading is true only if an add has started
\* and has not yet dispatched its ADD_BOX or SET_ERROR.
C17_LoadingOnlyDuringAdd == state.loading => pending # <<>>

\* A remove, an update or a clearError was made during the delay of an add,
\* and loading is still true.
C17_Witness ==
    /\ last.op \in {"removeBox", "updateBox", "clearError"}
    /\ state.loading
    /\ pending # <<>>
    /\ Len(Boxes) >= 1

InFlight(id) == \E k \in 1..Len(pending) : pending[k].box.id = id

\* The records the waiting adds carry.
Carried(q) == [k \in 1..Len(q) |-> q[k].box]

\* C18: an add that has started with a priceable candidate is never dropped
\* while it waits, whether or not the form that started it is still mounted;
\* the end of its delay appends its record, sets loading to false and leaves
\* the statistics matching the records; and the delay does end.
C18_AddCompletesUncancelled ==
    /\ [][ /\ ~AddBoxDone => \E n \in 0..1 :
                  Carried(pending) = SubSeq(Carried(pending'), 1, Len(pending') - n)
           /\ AddBoxDone =>
                  /\ state'.boxes = Append(Boxes, Head(pending).box)
                  /\ pending' = Tail(pending)
                  /\ ~state'.loading
                  /\ state'.statistics = StatisticsOf(state'.boxes) ]_vars
    /\ \A id \in 1..MaxAdds :
          InFlight(id) ~> (~InFlight(id) /\ last.op = "addBoxDone"
                           /\ last.box.id = id /\ ~state.loading
                           /\ ~NoBoxHasId(Boxes, Some(id)))

\* An add submitted from the form has completed after the user left the form.
C18_Witness ==
    /\ last.op = "addBoxDone"
    /\ last.caller = "unmounted"
    /\ ui.route = "list"
    /\ Succeeded
    /\ Boxes[Len(Boxes)] = last.box
    /\ ~state.loading

\* C19: a notification is hidden by its timer only when it has been visible
\* for the full duration; the timer of a notification that was dismissed is
\* cancelled; and a visible notification, one that replaced another included,
\* has a timer of its own, as old as it is.
C19_NotificationFullDuration ==
    [][ /\ TimerFire => ui.shownFor = DURATION
        /\ ~ui'.notification.isVisible => ui'.timer = Undefined
        /\ ui'.notification.isVisible => ui'.timer = Some(ui'.shownFor) ]_vars

\* The form data break a rule of the validation: no name, no numeric weight
\* above zero and within the limit, or no country.
FailsValidation(formData) ==
    \/ Trim(formData.receiverName) = ""
    \/ Len(Trim(formData.receiverName)) > MAX_NAME_LENGTH
    \/ ParseFloat(formData.weight) = Undefined
    \/ Val(ParseFloat(formData.weight)) <= 0
    \/ Val(ParseFloat(formData.weight)) > MAX_WEIGHT
    \/ formData.country = ""

\* C20: a submission of form data that fail validation invokes no add and
\* leaves the store's records, statistics, loading and error as they were.
C20_InvalidSubmitKeepsStore ==
    [][(FailsValidation(ui.formData) /\ HandleSubmit) =>
        /\ pending' = pending
        /\ nextId' = nextId
        /\ state' = state]_vars

\* C20 as amended: such a submission invokes no add and leaves the store's
\* records, statistics and loading as they were; the store's error is null
\* after it, the handler calling clearError before it validates.
C20_InvalidSubmitOnlyClearsError ==
    [][(FailsValidation(ui.formData) /\ HandleSubmit) =>
        /\ pending' = pending
        /\ nextId' = nextId
        /\ state' = [state EXCEPT !.error = Null]]_vars

\* A form without a country was submitted on a store with a record and an
\* error, and the error is gone.
C20_Witness ==
    /\ last.op = "submit"
    /\ last.error # Null
    /\ state.error = Null
    /\ ui.formData.receiverName = "Alice"
    /\ ui.formData.weight = "2"
    /\ ui.formData.country = ""
    /\ Len(Boxes) >= 1
    /\ ui.notification.isVisible

\* The UPDATE_BOX action that updateBox dispatches for an id and fields.
UpdateAction(id, updates) ==
    [type |-> "UPDATE_BOX", payload |-> [id |-> id, updates |-> updates]]

\* The errors after the REMOVE_BOX and UPDATE_BOX transitions of a state, for
\* every id and fields.
ErrorsAfterMutation(s) ==
    { boxReducer(s, RemoveAction(Some(id))).error : id \in 1..(MaxAdds + 1) }
    \cup { boxReducer(s, UpdateAction(id, u)).error :
               id \in 1..(MaxAdds + 1), u \in Updates }

\* C21: a remove or update transition performed while the store's error is
\* set leaves the error as it was.
C21_MutationKeepsError ==
    state.error # Null => ErrorsAfterMutation(state) = {state.error}

\* C21 as amended: the store's error lasts until clearError or until the next
\* transition that succeeds: a remove or update transition performed while
\* the error is set resets the error to null.
C21_MutationClearsError ==
    state.error # Null => ErrorsAfterMutation(state) = {Null}

\* The store's error is set and it holds a record, which a REMOVE_BOX
\* transition takes out and an UPDATE_BOX transition changes, the error being
\* null after either.
C21_Witness ==
    /\ state.error = "Box ID is required"
    /\ Len(Boxes) >= 1
    /\ LET id == Val(Get(Boxes[1], "id"))
           removed == boxReducer(state, RemoveAction(Some(id)))
           updated == boxReducer(state, UpdateAction(id, [weight |-> 1000]))
       IN  /\ Len(removed.boxes) < Len(Boxes)
           /\ removed.error = Null
           /\ updated.boxes # Boxes
           /\ updated.error = Null

\* The price was asked for a weight above zero and a country whose key, in
\* whatever case, has a rate.
PricedSupported ==
    /\ last.op = "price"
    /\ last.returned
    /\ last.weight # Undefined
    /\ last.country # Undefined
    /\ Val(last.weight) > 0
    /\ ToUpperCase(Val(last.country)) \in DOMAIN SHIPPING_RATES

\* C22: for every weight above zero and every country whose key, matched
\* whatever its case, has a rate, the price is the weight times the rate
\* rounded to two decimals, a half cent rounding up (0.5 kg to Brazil, 7.815,
\* costs 7.82).
C22_PriceIsRoundedProduct ==
    PricedSupported =>
        /\ ~last.result.threw
        /\ last.result.value =
               Round2HalfUp(Val(last.weight),
                            SHIPPING_RATES[ToUpperCase(Val(last.country))])

\* The price was asked and the call is over.
Priced == last.op = "price" /\ last.returned

NoWeight == last.weight = Undefined \/ Val(last.weight) <= 0

NoCountry == last.country \in {Undefined, Some("")}

\* C23: the price is 0, and nothing is thrown, when the weight is absent, zero
\* or negative, for every country that has a rate, and when the country is
\* absent or empty, for every weight; for a weight above zero and a country
\* that is not empty and has no rate, an error naming the country is thrown.
C23_PriceZeroOrUnknownCountry ==
    Priced =>
        /\ (NoWeight /\ ~NoCountry
              /\ ToUpperCase(Val(last.country)) \in DOMAIN SHIPPING_RATES)
               => last.result = Returned(0)
        /\ NoCountry => last.result = Returned(0)
        /\ (~NoWeight /\ ~NoCountry
              /\ ToUpperCase(Val(last.country)) \notin DOMAIN SHIPPING_RATES)
               => /\ last.result.threw
                  /\ last.result.message =
                         "Shipping rate not found for country: "
                             \o Val(last.country)

\* The price of 1 kg to a country without a rate was asked, and the error
\* was thrown.
C23_Witness ==
    /\ Priced
    /\ last.weight = Some(100)
    /\ last.country = Some("Mars")
    /\ last.result.threw

\* The texts of the model that are numerals.
IsNumeral(text) == text \in {"0", "-1", "2", "10000", "10000.01"}

\* The name of the form data is absent, or empty once trimmed, or longer than
\* 100 characters.
NameFails(formData) ==
    \/ "receiverName" \notin DOMAIN formData
    \/ Trim(formData.receiverName) = ""
    \/ Len(Trim(formData.receiverName)) > 100

\* The weight of the form data is absent, or not a number, or a number that
\* is negative, zero or above 10000 kg.
WeightFails(formData, text) ==
    \/ "weight" \notin DOMAIN formData
    \/ text /\ ~IsNumeral(formData.weight)
    \/ LET weight == IF text THEN Val(ParseFloat(formData.weight))
                     ELSE formData.weight
       IN  weight <= 0 \/ weight > 1000000

CountryFails(formData) ==
    "country" \notin DOMAIN formData \/ formData.country = ""

\* C24: the error map of a validation has the key receiverName iff the
\* trimmed name is empty or longer than 100, the key weight iff the weight is
\* missing, not numeric, negative, zero or above 10000, and the key country
\* iff the country is missing, each whatever the other fields are; isValid is
\* true iff the map has no key.
C24_ValidateRules ==
    (last.op = "validate" /\ last.returned) =>
        LET errors == last.result.errors
        IN  /\ "receiverName" \in DOMAIN errors <=> NameFails(last.formData)
            /\ "weight" \in DOMAIN errors <=> WeightFails(last.formData, last.text)
            /\ "country" \in DOMAIN errors <=> CountryFails(last.formData)
            /\ last.result.isValid <=> DOMAIN errors = {}

\* The calls of func made after the j-th call of the debounced function and
\* before the next one.
InvokedAfter(j) ==
    {i \in 1..Len(last.invoked) : last.invoked[i].after = j}

\* C25: of calls of a debounced function each less than the delay after the
\* one before, only the last one's timer fires: func is called at most once
\* after it, with its arguments and no sooner than the delay after it, exactly
\* once when no timer is left, and never between two of them.
C25_DebounceOnceWithLastArgs ==
    last.op = "debounce" =>
        /\ \A i \in 1..Len(last.invoked) :
               LET v == last.invoked[i]
               IN  /\ v.after >= 1
                   /\ v.args = last.called[v.after].args
                   /\ v.at >= last.called[v.after].at + DELAY
        /\ \A j \in 1..Len(last.called) :
               /\ Cardinality(InvokedAfter(j)) <= 1
               /\ (j < Len(last.called)
                     /\ last.called[j + 1].at - last.called[j].at < DELAY)
                      => InvokedAfter(j) = {}
        /\ (last.called # <<>> /\ pending = <<>>)
               => Cardinality(InvokedAfter(Len(last.called))) = 1

\* Three calls with different arguments, each half a delay after the one
\* before, have been followed by one call of func, with the arguments of the
\* third.
C25_Witness ==
    /\ last.op = "debounce"
    /\ Len(last.called) = 3
    /\ last.called[1].args = "arg1"
    /\ last.called[2].args = "arg2"
    /\ last.called[3].args = "arg3"
    /\ last.called[2].at = last.called[1].at + DELAY \div 2
    /\ last.called[3].at = last.called[2].at + DELAY \div 2
    /\ Len(last.invoked) = 1
    /\ last.invoked[1].args = "arg3"
    /\ pending = <<>>

\* The numerals among the parts of the strings of the model.
Numerals == {<<"2", "5", "5">>, <<"0">>}

\* C26: rgbToColor returns "rgb(r, g, b)" for the string "(r, g, b)", r, g
\* and b being numerals, and "#000000" for every other argument: no string,
\* the empty one, two parts, a part that is no numeral, another separator, or
\* characters before or after the triplet.
C26_ColorOnlyForExactTriplet ==
    (last.op = "rgbToColor" /\ last.returned) =>
        IF \E r \in Numerals, g \in Numerals, b \in Numerals :
              last.rgbString =
                  Some(<<"(">> \o r \o <<",", " ">> \o g \o <<",", " ">> \o b
                           \o <<")">>)
        THEN \E r \in Numerals, g \in Numerals, b \in Numerals :
                /\ last.rgbString =
                       Some(<<"(">> \o r \o <<",", " ">> \o g \o <<",", " ">> \o b
                                \o <<")">>)
                /\ last.result =
                       "rgb(" \o JoinChars(r) \o ", " \o JoinChars(g) \o ", " \o JoinChars(b) \o ")"
        ELSE last.result = "#000000"

\* The fields of the form data that break their rule of the validation.
FailingFields(formData) ==
    {k \in {"receiverName"} :
        \/ Trim(formData.receiverName) = ""
        \/ Len(Trim(formData.receiverName)) > MAX_NAME_LENGTH}
    \cup {k \in {"weight"} :
        \/ ParseFloat(formData.weight) = Undefined
        \/ Val(ParseFloat(formData.weight)) <= 0
        \/ Val(ParseFloat(formData.weight)) > MAX_WEIGHT}
    \cup {k \in {"country"} : formData.country = ""}

\* The aggregate messages that name the fields of a set, and maybe others.
MessagesNaming(fields) ==
    { missingFieldsMessage([k \in named |-> "invalid"]) :
        named \in {n \in SUBSET {"receiverName", "weight", "country"} :
                     fields \subseteq n} }

\* C27: a submission of form data that fail validation shows a notification
\* whose message names every field that breaks its rule in the data
\* submitted, the first submission of an untouched form included.
C27_AggregateNamesFailingFields ==
    [][(FailsValidation(ui.formData) /\ HandleSubmit) =>
        /\ ui'.notification.isVisible
        /\ ui'.notification.message \in MessagesNaming(FailingFields(ui.formData))]_vars

\* C28: in every reachable state in which an add has started and has neither
\* appended its record nor failed, loading is true, two adds overlapping and
\* one of them being over included.
C28_LoadingWhileAddInFlight == pending # <<>> => state.loading

\* The step is the second of two calls of updateBox made one after the other
\* through the same callback, for the same box, one with a weight and the
\* other with a country.
SecondOfTwoUpdates ==
    /\ last.op = "updateBox"
    /\ last'.op = "updateBox"
    /\ nUpdates' = nUpdates + 1
    /\ ~Rendered
    /\ last.result.success
    /\ last'.result.success
    /\ last'.boxId = last.boxId
    /\ DOMAIN Val(last.updates) \cup DOMAIN Val(last'.updates)
          = {"weight", "country"}
    /\ DOMAIN Val(last.updates) # DOMAIN Val(last'.updates)

\* C29: after two calls of updateBox made one after the other through the
\* same callback, before the provider renders, for the same record, one
\* changing its weight and the other its country, the record's shippingCost
\* is the price of the weight and the country it has then.
C29_BackToBackUpdatesReprice ==
    [][SecondOfTwoUpdates =>
        \A k \in 1..Len(state'.boxes) :
            LET box == state'.boxes[k]
            IN  Get(box, "id") = last'.boxId
                    => calculateShippingCost(Get(box, "weight"),
                                             Get(box, "country"))
                         = Returned(box.shippingCost)]_vars

\* The step ends the delay of an add that was waiting while the last remove
\* or update, which succeeded, was performed.
AddDoneAfterMutation ==
    /\ last'.op = "addBoxDone"
    /\ last.op \in {"removeBox", "updateBox"}
    /\ last.result.success
    /\ pending # <<>>
    /\ pending' = Tail(pending)

\* C30: when the delay of an add ends after a remove or an update performed
\* while the add was waiting, the records become those the remove or update
\* left, in their order and as they were, followed by the new record, and
\* the statistics are those of that sequence; no record has the id a remove
\* took out, the new one apart.
C30_AddKeepsInterveningMutation ==
    [][AddDoneAfterMutation =>
        /\ state'.boxes = Append(Boxes, Head(pending).box)
        /\ state'.statistics = StatisticsOf(state'.boxes)
        /\ last.op = "removeBox" => NoBoxHasId(Boxes, last.boxId)]_vars

\* An add has completed whose record was made before a stored record was
\* last updated.
C30_Witness ==
    /\ last.op = "addBoxDone"
    /\ Succeeded
    /\ Len(Boxes) >= 2
    /\ \E k \in 1..(Len(Boxes) - 1) :
          Boxes[k].updatedAt > Boxes[Len(Boxes)].createdAt

====
